---- MODULE Spec2Model ----
(***************************************************************************)
(* Model of tools/scrape_wikimedia_animals.py (the category Walker,        *)
(* fetch_category_files_recursive, and the fetcher's main) and of          *)
(* tools/select_diverse_assets.py (the diverse Selector, main).            *)
(*                                                                         *)
(* SpecWalker   : one call of fetch_category_files_recursive, one action   *)
(*                per step of the nested walk(); the remote listing        *)
(*                service answers each page request with a page whose      *)
(*                size it chooses.                                         *)
(* SpecSelector : one run of the Selector's main, one action per iteration *)
(*                of its loops (stages 1-4, then pruning).                 *)
(* SpecListdir  : SpecSelector with each directory listed by os.listdir in *)
(*                two opposite orders.                                     *)
(* SpecWalkerFair : SpecWalker under weak fairness of the Walker's steps.  *)
(* SpecFetcher  : one run of the fetcher's main: the Walker called once    *)
(*                per --category, fetch_image_info in batches, then the    *)
(*                filter and persist loop; a listing or imageinfo request  *)
(*                may fail, and so may a download or a file write.         *)
(***************************************************************************)
EXTENDS Integers, Sequences, FiniteSets, TLC

(***************************************************************************)
(* Bounds                                                                  *)
(***************************************************************************)
MaxLimit == 3        \* limit ranges over 0..MaxLimit (and the scenario's 10)
MaxMaxDepth == 3     \* max_depth ranges over 0..MaxMaxDepth
MaxPageLen == 2      \* the service returns 1..MaxPageLen entries per page

(***************************************************************************)
(* Generic helpers                                                         *)
(***************************************************************************)
\* Python's None; a continuation token is a one-element tuple, so that a
\* token never equals None
None == << >>

Min(a, b) == IF a <= b THEN a ELSE b

Range(s) == {s[i] : i \in DOMAIN s}

NoDup(s) == \A i, j \in DOMAIN s : i # j => s[i] # s[j]

\* Python slice s[:n] for n >= 0
SliceTo(s, n) == SubSeq(s, 1, Min(Len(s), n))

(***************************************************************************)
(* Titles.  A member title is modelled as its namespace prefix and the     *)
(* rest of the string, so that title.startswith("File:") is a test of the  *)
(* prefix.                                                                 *)
(***************************************************************************)
File(n) == [ns |-> "File", name |-> n]
Cat(n) == [ns |-> "Category", name |-> n]
Other(n) == [ns |-> "", name |-> n]

StartsWith(title, prefix) == title.ns = prefix

(***************************************************************************)
(* The category graphs the remote service may hold: the full member        *)
(* listing of each of four categories.  They include the end-to-end        *)
(* scenario, empty categories, self-loops, cycles back to the root,        *)
(* diamonds, a chain of depth 3, a file that is a member of two            *)
(* categories and a member that is neither a file nor a category.          *)
(***************************************************************************)
RootListings ==
    { << >>,
      << File("a"), File("b"), Cat("c1") >>,
      << Cat("c1"), File("a"), Cat("c2") >>,
      << Cat("root"), File("a"), Cat("c1") >>,
      << File("a"), Cat("c1"), File("b") >>,
      << Other("x"), Cat("c2"), Cat("c1") >> }

C1Listings ==
    { << File("c") >>,
      << Cat("c2"), File("c") >>,
      << Cat("root"), File("c"), Cat("c1") >>,
      << File("c"), Cat("c2"), File("a") >> }

C2Listings ==
    { << >>,
      << File("d") >>,
      << Cat("c3"), File("d") >>,
      << Cat("c1"), Cat("c3") >> }

C3Listings ==
    { << File("e") >>,
      << File("e"), Cat("root") >> }

Graphs ==
    { [root |-> r, c1 |-> a, c2 |-> b, c3 |-> c] :
        r \in RootListings, a \in C1Listings, b \in C2Listings, c \in C3Listings }

ExampleGraph ==
    [root |-> << File("a"), File("b"), Cat("c1") >>,
     c1 |-> << File("c") >>,
     c2 |-> << >>,
     c3 |-> << File("e") >>]

Limits == (0 .. MaxLimit) \cup {10}

VARIABLES
    graph,       \* the remote category graph (member listing per category)
    category,    \* argument: the root category
    limit,       \* argument
    max_depth,   \* argument
    files,       \* the accumulator `files`
    visited,     \* the set `visited`
    stack,       \* activations of walk(), innermost last
    result,      \* the value returned by fetch_category_files_recursive
    wpc,         \* "walking" | "done"
    entered,     \* history: the activations that passed the guard, in order
    requests     \* history: the listing requests made, in order

VARIABLES
    listdir,              \* history: what os.listdir(args.dir) returned
    dir0,                 \* history: the names in args.dir when the run began
    disk,                 \* the names present in args.dir
    sel_files,            \* `files` of the Selector: listed, filtered, sorted
    args_limit,           \* args.limit
    args_per_animal_max,  \* args.per_animal_max
    args_birds_min,       \* args.birds_min
    args_prune,           \* args.prune
    quotas,               \* the dict `quotas`, in insertion order
    ensure_tokens,        \* the list `ensure_tokens`
    selected,             \* the list `selected`
    per,                  \* the dict `per` (a missing key reads 0)
    removed,              \* the counter `removed`
    report,               \* what the final summary line reports
    spc,                  \* "quota" | "ensure" | "birds" | "fill" | "prune" | "done"
    oi,                   \* position in the outer loop of stage 1, then of
                          \* stage 2 (kept after stage 2: where its loop ended)
    fi,                   \* position in the current scan of file_keys (0: none)
    failures,             \* history: the number of os.remove calls that raised
    failed,               \* history: the files whose os.remove raised
    sel_out               \* the lines the run printed, in order

svars == << listdir, dir0, disk, sel_files, args_limit, args_per_animal_max,
            args_birds_min, args_prune, quotas, ensure_tokens, selected, per,
            removed, report, spc, oi, fi, failures, failed, sel_out >>

VARIABLES
    f_args,      \* args of the fetcher: category, limit and the raw pieces of
                 \* --include, --exclude and --exclude-ext
    commons,     \* the remote imageinfo of each file title
    csv0,        \* history: animals_metadata.csv when the run began
    csv,         \* animals_metadata.csv: whether it exists, and its rows
    csv_opened,  \* history: the run has opened the CSV for writing
    out_files,   \* the images written into args.out: name -> "whole" | "broken"
    titles,      \* the list `titles`
    ci,          \* position in the loop over args.category
    info,        \* the dict `info`, as its items in insertion order
    bi,          \* the `i` of fetch_image_info: the start of the next batch
    item_i,      \* position in the loop over info.items()
    downloaded,  \* the counter `downloaded`
    kept,        \* the counter `kept`
    f_out,       \* the lines main printed, in order
    fpc,         \* "gather" | "walk" | "info" | "items" | "done" | "raised"
    error,       \* history: the remote call whose exception left main
    outcome,     \* history: per item of info gone through, "skipped" |
                 \* "saved" | "failed"
    got          \* history: the urls given to requests.get for an image

fvars == << f_args, commons, csv0, csv, csv_opened, out_files, titles, ci, info,
            bi, item_i, downloaded, kept, f_out, fpc, error, outcome, got >>

wvars == << graph, category, limit, max_depth, files, visited, stack, result,
            wpc, entered, requests >>

vars == << wvars, svars, fvars >>

(***************************************************************************)
(* walk(cat, depth): an activation record                                  *)
(***************************************************************************)
Frame(cat, depth) ==
    [cat |-> cat, depth |-> depth, pc |-> "enter",
     cont |-> None, members |-> << >>, i |-> 1]

Top == stack[Len(stack)]

Pop == SubSeq(stack, 1, Len(stack) - 1)

SetTop(f) == [stack EXCEPT ![Len(stack)] = f]

\* len(files) >= limit
AtLimitMutant(fs) == Len(fs) > limit
AtLimit(fs) == Len(fs) >= limit

\* line 73: the guard of walk
WalkGuardNoVisited(cat, depth) ==
    depth > max_depth \/ AtLimit(files)
WalkGuardDeeper(cat, depth) ==
    depth > max_depth + 1 \/ AtLimit(files) \/ cat \in visited
WalkGuard(cat, depth) ==
    depth > max_depth \/ AtLimit(files) \/ cat \in visited

\* line 82: files.append(m)
AppendFileMutant(fs, m) == << m >> \o fs
AppendFile(fs, m) == Append(fs, m)

\* line 86: the depth of the recursive call
ChildDepth(depth) == depth + 1

(***************************************************************************)
(* fetch_category_members: the service returns the next page of the        *)
(* listing of `cat` after the continuation `cont`, and the continuation    *)
(* for the page after it, or None when the listing is exhausted.  The      *)
(* service chooses the page size.                                          *)
(***************************************************************************)
fetch_category_members(cat, cont) ==
    LET listing == graph[cat.name]
        start == IF cont = None THEN 0 ELSE cont[1]
        rest == Len(listing) - start
    IN  IF rest = 0
        THEN { [members |-> << >>, next_cont |-> None] }
        ELSE { [members |-> SubSeq(listing, start + 1, start + k),
                next_cont |-> IF start + k < Len(listing)
                              THEN << start + k >> ELSE None] :
               k \in 1 .. Min(MaxPageLen, rest) }

\* the fetcher's main is not running
FetcherIdle ==
    /\ f_args = << >>
    /\ commons = << >>
    /\ csv0 = << >>
    /\ csv = << >>
    /\ csv_opened = FALSE
    /\ out_files = << >>
    /\ titles = << >>
    /\ ci = 0
    /\ info = << >>
    /\ bi = 0
    /\ item_i = 0
    /\ downloaded = 0
    /\ kept = 0
    /\ f_out = << >>
    /\ fpc = "idle"
    /\ error = << >>
    /\ outcome = << >>
    /\ got = << >>

\* the Selector is not running
SelectorIdle ==
    /\ listdir = << >>
    /\ dir0 = {}
    /\ disk = {}
    /\ sel_files = << >>
    /\ args_limit = 0
    /\ args_per_animal_max = 0
    /\ args_birds_min = 0
    /\ args_prune = FALSE
    /\ quotas = << >>
    /\ ensure_tokens = << >>
    /\ selected = << >>
    /\ per = << >>
    /\ removed = 0
    /\ report = << >>
    /\ spc = "idle"
    /\ oi = 0
    /\ fi = 0
    /\ failures = 0
    /\ failed = {}
    /\ sel_out = << >>

InitWalker ==
    /\ SelectorIdle
    /\ FetcherIdle
    /\ graph \in Graphs
    /\ category = Cat("root")
    /\ limit \in Limits
    /\ max_depth \in 0 .. MaxMaxDepth
    /\ files = << >>
    /\ visited = {}
    /\ stack = << Frame(category, 0) >>
    /\ result = << >>
    /\ wpc = "walking"
    /\ entered = << >>
    /\ requests = << >>

Walking == wpc = "walking" /\ stack # << >>

\* lines 73-74: the guard holds, walk returns at once
WalkSkip ==
    /\ Walking
    /\ Top.pc = "enter"
    /\ WalkGuard(Top.cat, Top.depth)
    /\ stack' = Pop
    /\ UNCHANGED << svars, fvars >>
    /\ UNCHANGED << graph, category, limit, max_depth, files, visited, result,
                    wpc, entered, requests >>

\* lines 75-76: mark the category visited, start its pagination
WalkEnter ==
    /\ Walking
    /\ Top.pc = "enter"
    /\ ~ WalkGuard(Top.cat, Top.depth)
    /\ visited' = visited \cup {Top.cat}
    /\ entered' = Append(entered, [cat |-> Top.cat, depth |-> Top.depth])
    /\ stack' = SetTop([Top EXCEPT !.pc = "while", !.cont = None])
    /\ UNCHANGED << svars, fvars >>
    /\ UNCHANGED << graph, category, limit, max_depth, files, result, wpc,
                    requests >>

\* lines 77-78: the while test and the request of one page
FetchPage ==
    /\ Walking
    /\ Top.pc = "while"
    /\ IF Len(files) < limit
       THEN \E r \in fetch_category_members(Top.cat, Top.cont) :
              /\ stack' = SetTop([Top EXCEPT !.pc = "for", !.members = r.members,
                                             !.cont = r.next_cont, !.i = 1])
              /\ requests' = Append(requests,
                                    [cat |-> Top.cat, depth |-> Top.depth,
                                     cmcontinue |-> Top.cont])
       ELSE /\ stack' = Pop
            /\ UNCHANGED requests
    /\ UNCHANGED << svars, fvars >>
    /\ UNCHANGED << graph, category, limit, max_depth, files, visited, result,
                    wpc, entered >>

InFor == Walking /\ Top.pc = "for" /\ Top.i <= Len(Top.members)

\* the loop control after an entry: break when the limit is reached
AfterEntry(fs) ==
    IF AtLimit(fs)
    THEN [Top EXCEPT !.pc = "pageend"]
    ELSE [Top EXCEPT !.pc = "for", !.i = @ + 1]

\* lines 81-84: a "File:" entry
ForFile ==
    /\ InFor
    /\ StartsWith(Top.members[Top.i], "File")
    /\ files' = AppendFile(files, Top.members[Top.i])
    /\ stack' = SetTop(AfterEntry(files'))
    /\ UNCHANGED << svars, fvars >>
    /\ UNCHANGED << graph, category, limit, max_depth, visited, result, wpc,
                    entered, requests >>

\* lines 85-86: a "Category:" entry, the recursive call
ForCategory ==
    /\ InFor
    /\ ~ StartsWith(Top.members[Top.i], "File")
    /\ StartsWith(Top.members[Top.i], "Category")
    /\ stack' = Append(SetTop([Top EXCEPT !.pc = "called"]),
                       Frame(Top.members[Top.i], ChildDepth(Top.depth)))
    /\ UNCHANGED << svars, fvars >>
    /\ UNCHANGED << graph, category, limit, max_depth, files, visited, result,
                    wpc, entered, requests >>

\* lines 87-88: back from the recursive call
AfterCall ==
    /\ Walking
    /\ Top.pc = "called"
    /\ stack' = SetTop(AfterEntry(files))
    /\ UNCHANGED << svars, fvars >>
    /\ UNCHANGED << graph, category, limit, max_depth, files, visited, result,
                    wpc, entered, requests >>

\* lines 79-88: an entry that is neither a file nor a category
ForOther ==
    /\ InFor
    /\ ~ StartsWith(Top.members[Top.i], "File")
    /\ ~ StartsWith(Top.members[Top.i], "Category")
    /\ stack' = SetTop([Top EXCEPT !.i = @ + 1])
    /\ UNCHANGED << svars, fvars >>
    /\ UNCHANGED << graph, category, limit, max_depth, files, visited, result,
                    wpc, entered, requests >>

\* lines 89-91: the page is done; next page, or pause and return
PageEnd ==
    /\ Walking
    /\ \/ Top.pc = "pageend"
       \/ Top.pc = "for" /\ Top.i > Len(Top.members)
    /\ IF Top.cont = None \/ AtLimit(files)
       THEN stack' = Pop
       ELSE stack' = SetTop([Top EXCEPT !.pc = "while"])
    /\ UNCHANGED << svars, fvars >>
    /\ UNCHANGED << graph, category, limit, max_depth, files, visited, result,
                    wpc, entered, requests >>

\* line 94: return files[:limit]
WalkerReturn ==
    /\ wpc = "walking"
    /\ stack = << >>
    /\ result' = SliceTo(files, limit)
    /\ wpc' = "done"
    /\ UNCHANGED << svars, fvars >>
    /\ UNCHANGED << graph, category, limit, max_depth, files, visited, stack,
                    entered, requests >>

NextWalker ==
    \/ WalkSkip
    \/ WalkEnter
    \/ FetchPage
    \/ ForFile
    \/ ForCategory
    \/ AfterCall
    \/ ForOther
    \/ PageEnd
    \/ WalkerReturn

SpecWalker == InitWalker /\ [][NextWalker]_vars

WalkerDone == wpc = "done"

\* the interpreter and the remote service keep taking steps: a call that
\* can proceed does proceed, and a request is answered
SpecWalkerFair == SpecWalker /\ WF_vars(NextWalker)

(***************************************************************************)
(* Reference traversal, used to state the Walker's claims: the files of    *)
(* the graph in depth-first order, entry by entry, entering a category     *)
(* once and at depth <= max_depth only, with no limit on their number and  *)
(* no pagination.                                                          *)
(***************************************************************************)
RECURSIVE RefWalk(_, _, _), RefEntries(_, _, _, _)

RefWalk(cat, depth, acc) ==
    IF depth > max_depth \/ cat \in acc.seen
    THEN acc
    ELSE RefEntries(graph[cat.name], 1, depth,
                    [acc EXCEPT !.seen = @ \cup {cat}])

RefEntries(listing, i, depth, acc) ==
    IF i > Len(listing)
    THEN acc
    ELSE LET e == listing[i]
             next == IF e.ns = "File"
                     THEN [acc EXCEPT !.out = Append(@, e)]
                     ELSE IF e.ns = "Category"
                          THEN RefWalk(e, depth + 1, acc)
                          ELSE acc
         IN  RefEntries(listing, i + 1, depth, next)

RefFiles == RefWalk(category, 0, [out |-> << >>, seen |-> {}]).out

FileMembers(cat) == {e \in Range(graph[cat.name]) : e.ns = "File"}

(***************************************************************************)
(* C1: fetch_category_files_recursive returns at most `limit` items, all   *)
(* of them file items; the accumulator itself never holds more than        *)
(* `limit` items, whatever page sizes the service chooses.                 *)
(***************************************************************************)
C1_AtMostLimit ==
    /\ Len(files) <= limit
    /\ WalkerDone =>
          /\ Len(result) <= limit
          /\ \A i \in DOMAIN result : result[i].ns = "File"

\* a call that returned exactly `limit` items from a graph that has more
C1_Witness ==
    /\ WalkerDone
    /\ limit > 0
    /\ Len(RefFiles) > limit
    /\ Len(result) = limit

(***************************************************************************)
(* C2: within one call no category is entered twice: each category is      *)
(* marked visited by at most one activation of walk, and every listing     *)
(* request for it comes from that activation (its first page is requested  *)
(* at most once).                                                          *)
(***************************************************************************)
C2_EnteredOnce ==
    /\ \A i, j \in DOMAIN entered : i # j => entered[i].cat # entered[j].cat
    /\ \A i, j \in DOMAIN requests :
          (i # j /\ requests[i].cat = requests[j].cat)
             => /\ requests[i].depth = requests[j].depth
                /\ requests[i].cmcontinue # requests[j].cmcontinue
    /\ \A i \in DOMAIN requests :
          \E j \in DOMAIN entered :
             entered[j].cat = requests[i].cat /\ entered[j].depth = requests[i].depth

\* walk is called again on a category already visited, with depth and limit
\* both still allowing the descent
C2_Witness ==
    /\ Walking
    /\ Top.pc = "enter"
    /\ Top.cat \in visited
    /\ Top.depth <= max_depth
    /\ ~ AtLimit(files)

(***************************************************************************)
(* C3: no listing is requested at depth > max_depth; every returned file   *)
(* is a direct member of a category entered at depth <= max_depth; with    *)
(* max_depth = 0 only the root is listed and only its direct file members   *)
(* are returned.                                                           *)
(***************************************************************************)
C3_DepthBound ==
    /\ \A i \in DOMAIN requests : requests[i].depth <= max_depth
    /\ \A i \in DOMAIN entered : entered[i].depth <= max_depth
    /\ WalkerDone =>
          \A i \in DOMAIN result :
             \E j \in DOMAIN entered :
                /\ entered[j].depth <= max_depth
                /\ result[i] \in FileMembers(entered[j].cat)
    /\ max_depth = 0 =>
          /\ \A i \in DOMAIN requests : requests[i].cat = category
          /\ WalkerDone => Range(result) \subseteq FileMembers(category)

\* max_depth = 0 and the root lists a subcategory that has files of its own:
\* the call returned without them
C3_Witness ==
    /\ WalkerDone
    /\ max_depth = 0
    /\ Len(result) < limit
    /\ \E e \in Range(graph[category.name]) :
          /\ e.ns = "Category"
          /\ e # category
          /\ FileMembers(e) \ FileMembers(category) # {}

(***************************************************************************)
(* C4: the returned files are in depth-first discovery order: the first    *)
(* `limit` files of the depth-first, entry-by-entry traversal, whatever    *)
(* the pagination.  In the end-to-end scenario (root = 2 files and a       *)
(* subcategory with 1 file), limit = 10: max_depth = 3 gives the 3 files   *)
(* in discovery order, max_depth = 0 the 2 direct members.                 *)
(***************************************************************************)
C4_DiscoveryOrder ==
    WalkerDone =>
       /\ result = SliceTo(RefFiles, limit)
       /\ (graph = ExampleGraph /\ limit = 10 /\ max_depth = 3)
             => result = << File("a"), File("b"), File("c") >>
       /\ (graph = ExampleGraph /\ limit = 10 /\ max_depth = 0)
             => result = << File("a"), File("b") >>

\* the end-to-end scenario, finished, with all three files returned
C4_Witness ==
    /\ WalkerDone
    /\ graph = ExampleGraph
    /\ limit = 10
    /\ max_depth = 3
    /\ Len(result) = 3

(***************************************************************************)
(* The Selector (select_diverse_assets.py)                                 *)
(*                                                                         *)
(* File names are strings.  What the code computes from the characters of  *)
(* a name (the leading dot, the lowercase base name without extension, its *)
(* split on runs of non-letters, the lexicographic order) is tabulated for *)
(* the names of the model.                                                 *)
(***************************************************************************)
Names ==
    { ".hidden_owl.jpg", "elephant_zoo.jpg", "lion_a.jpg", "lion_b.jpg",
      "lion_c.jpg", "owl_night.jpg", "parrot_1.jpg", "river_wild_dog.jpg",
      "the_zoo.jpg", "tiger_a.jpg", "young_lions_2.jpg", "zoo_parrot.jpg" }

\* line 70: f.startswith('.')
StartsWithDot(f) == f = ".hidden_owl.jpg"

\* line 71: the position of the name in the lexicographic order of Names
Rank(f) ==
    CASE f = ".hidden_owl.jpg" -> 1
      [] f = "elephant_zoo.jpg" -> 2
      [] f = "lion_a.jpg" -> 3
      [] f = "lion_b.jpg" -> 4
      [] f = "lion_c.jpg" -> 5
      [] f = "owl_night.jpg" -> 6
      [] f = "parrot_1.jpg" -> 7
      [] f = "river_wild_dog.jpg" -> 8
      [] f = "the_zoo.jpg" -> 9
      [] f = "tiger_a.jpg" -> 10
      [] f = "young_lions_2.jpg" -> 11
      [] f = "zoo_parrot.jpg" -> 12

\* line 49: os.path.splitext(os.path.basename(name))[0].lower()
Base(f) ==
    CASE f = ".hidden_owl.jpg" -> ".hidden_owl"
      [] f = "elephant_zoo.jpg" -> "elephant_zoo"
      [] f = "lion_a.jpg" -> "lion_a"
      [] f = "lion_b.jpg" -> "lion_b"
      [] f = "lion_c.jpg" -> "lion_c"
      [] f = "owl_night.jpg" -> "owl_night"
      [] f = "parrot_1.jpg" -> "parrot_1"
      [] f = "river_wild_dog.jpg" -> "river_wild_dog"
      [] f = "the_zoo.jpg" -> "the_zoo"
      [] f = "tiger_a.jpg" -> "tiger_a"
      [] f = "young_lions_2.jpg" -> "young_lions_2"
      [] f = "zoo_parrot.jpg" -> "zoo_parrot"

\* line 50: [t for t in TOKEN_SPLIT.split(base) if t]
TokenSplit(b) ==
    CASE b = ".hidden_owl" -> << "hidden", "owl" >>
      [] b = "elephant_zoo" -> << "elephant", "zoo" >>
      [] b = "lion_a" -> << "lion", "a" >>
      [] b = "lion_b" -> << "lion", "b" >>
      [] b = "lion_c" -> << "lion", "c" >>
      [] b = "owl_night" -> << "owl", "night" >>
      [] b = "parrot_1" -> << "parrot" >>
      [] b = "river_wild_dog" -> << "river", "wild", "dog" >>
      [] b = "the_zoo" -> << "the", "zoo" >>
      [] b = "tiger_a" -> << "tiger", "a" >>
      [] b = "young_lions_2" -> << "young", "lions" >>
      [] b = "zoo_parrot" -> << "zoo", "parrot" >>

\* lines 19-34, 36-43, 146: the members of the three vocabularies among the
\* tokens of the model
ANIMAL_TOKENS == { "dog", "elephant", "lion", "owl", "parrot", "tiger" }

STOPWORDS == { "the", "zoo", "night", "young", "river" }

bird_tokens == { "owl", "parrot" }

\* lines 76-93: the entries of the synonym table among the tokens of the model
synonyms(t) ==
    CASE t = "lions" -> "lion"
      [] t = "parrots" -> "parrot"
      [] t = "wild" -> "wilddog"
      [] t = "dog" -> "wilddog"
      [] OTHER -> t

\* lines 95-97
canon(tok) == synonyms(tok)

\* lines 48-56
animal_key_from_name(name) ==
    LET base == Base(name)
        NotStop(t) == t \notin STOPWORDS
        tokens == SelectSeq(TokenSplit(base), NotStop)
        IsAnimal(t) == t \in ANIMAL_TOKENS
        animals == SelectSeq(tokens, IsAnimal)
    IN  IF animals # << >> THEN animals[1]
        ELSE IF tokens # << >> THEN tokens[1]
        ELSE base

\* line 71: files.sort()
RECURSIVE InsertSorted(_, _)
InsertSorted(f, s) ==
    IF s = << >> THEN << f >>
    ELSE IF Rank(f) <= Rank(Head(s)) THEN << f >> \o s
    ELSE << Head(s) >> \o InsertSorted(f, Tail(s))

\* the listing left as os.listdir returned it
SortFilesMutant(s) == s
RECURSIVE SortFiles(_)
SortFiles(s) ==
    IF s = << >> THEN << >> ELSE InsertSorted(Head(s), SortFiles(Tail(s)))

\* line 70: the listing without the names that start with a dot
ListedFiles(listing) ==
    LET Shown(f) == ~ StartsWithDot(f) IN SelectSeq(listing, Shown)

\* lines 99-110: the quotas dict built from the "key=count" pairs of --quota,
\* as the sequence of its items in insertion order
RECURSIVE ParseQuotas(_, _)
ParseQuotas(pairs, acc) ==
    IF pairs = << >> THEN acc
    ELSE LET k == canon(Head(pairs)[1])
             v == IF Head(pairs)[2] > 0 THEN Head(pairs)[2] ELSE 0
             at == {i \in DOMAIN acc : acc[i].key = k}
         IN  ParseQuotas(Tail(pairs),
                IF at = {}
                THEN Append(acc, [key |-> k, n |-> v])
                ELSE [i \in DOMAIN acc |->
                        IF i \in at THEN [key |-> k, n |-> v] ELSE acc[i]])

\* line 112
ParseEnsure(toks) == [i \in DOMAIN toks |-> canon(toks[i])]

(***************************************************************************)
(* Inputs                                                                  *)
(***************************************************************************)
MaxSelLimit == 3        \* args.limit ranges over 0..MaxSelLimit
MaxPerAnimal == 2       \* args.per_animal_max ranges over 0..MaxPerAnimal
MaxBirdsMin == 2        \* args.birds_min ranges over 0..MaxBirdsMin
MaxRemoveFailures == 1  \* at most this many os.remove calls raise in a run

\* what os.listdir may return
Listings ==
    { << >>,
      << "tiger_a.jpg", "lion_b.jpg", "lion_c.jpg", "lion_a.jpg" >>,
      << "lion_a.jpg", "elephant_zoo.jpg", "tiger_a.jpg", "parrot_1.jpg",
         "lion_b.jpg" >>,
      << "zoo_parrot.jpg", ".hidden_owl.jpg", "owl_night.jpg", "lion_a.jpg",
         "parrot_1.jpg" >>,
      << "young_lions_2.jpg", "the_zoo.jpg", "river_wild_dog.jpg",
         "lion_a.jpg" >> }

\* --quota, split into its key=count pairs
QuotaArgs ==
    { << >>,
      << << "lion", 2 >> >>,
      << << "lions", 3 >>, << "tiger", 0 >> >>,
      << << "parrot", 1 >>, << "lion", 1 >> >>,
      << << "lion", -1 >>, << "tiger", 1 >>, << "lions", 1 >> >> }

\* --ensure, split into its tokens
EnsureArgs ==
    { << >>,
      << "elephant" >>,
      << "lions", "tiger" >>,
      << "parrot", "dog", "elephant" >> }

Keys ==
    {animal_key_from_name(f) : f \in Names}
    \cup UNION {{canon(q[i][1]) : i \in DOMAIN q} : q \in QuotaArgs}
    \cup UNION {{canon(e[i]) : i \in DOMAIN e} : e \in EnsureArgs}

\* the Walker is not running
WalkerIdle ==
    /\ graph = << >>
    /\ category = Cat("root")
    /\ limit = 0
    /\ max_depth = 0
    /\ files = << >>
    /\ visited = {}
    /\ stack = << >>
    /\ result = << >>
    /\ wpc = "idle"
    /\ entered = << >>
    /\ requests = << >>

\* lines 59-115: the state on entry to stage 1
InitSelectorOn(listings) ==
    /\ WalkerIdle
    /\ FetcherIdle
    /\ listdir \in listings
    /\ dir0 = Range(listdir)
    /\ disk = Range(listdir)
    /\ sel_files = SortFiles(ListedFiles(listdir))
    /\ args_limit \in 0 .. MaxSelLimit
    /\ args_per_animal_max \in 0 .. MaxPerAnimal
    /\ args_birds_min \in 0 .. MaxBirdsMin
    /\ args_prune \in BOOLEAN
    /\ \E q \in QuotaArgs : quotas = ParseQuotas(q, << >>)
    /\ \E e \in EnsureArgs : ensure_tokens = ParseEnsure(e)
    /\ selected = << >>
    /\ per = [k \in Keys |-> 0]
    /\ removed = 0
    /\ report = << >>
    /\ spc = "quota"
    /\ oi = 1
    /\ fi = 0
    /\ failures = 0
    /\ failed = {}
    /\ sel_out = << >>

InitSelector == InitSelectorOn(Listings)

Reverse(s) == [i \in DOMAIN s |-> s[Len(s) + 1 - i]]

\* line 70: os.listdir returns the names of a directory in arbitrary order;
\* each directory is listed in two opposite orders
ListdirOrders == Listings \cup {Reverse(l) : l \in Listings}

InitListdir == InitSelectorOn(ListdirOrders)

\* line 115: file_keys
file_keys == [i \in DOMAIN sel_files |->
                [f |-> sel_files[i], k |-> animal_key_from_name(sel_files[i])]]

CurF == file_keys[fi].f
CurK == file_keys[fi].k

\* len(selected) >= args.limit
LimitReachedMutant == Len(selected) > args_limit
LimitReached == Len(selected) >= args_limit

\* f not in selected
NotSelectedMutant(f) == TRUE
NotSelected(f) == f \notin Range(selected)

\* per.get(k, 0) >= args.per_animal_max
PerMaxReachedMutant(k) == FALSE
PerMaxReached(k) == per[k] >= args_per_animal_max

\* selected.append(f); per[k] = per.get(k, 0) + 1
Select(f, k) ==
    /\ selected' = Append(selected, f)
    /\ per' = [per EXCEPT ![k] = @ + 1]

Scanning(stage) == spc = stage /\ fi >= 1 /\ fi <= Len(file_keys)

LastFileMutant == fi >= Len(file_keys) - 1
LastFile == fi = Len(file_keys)

\* where control goes when stage 2 is left
AfterEnsure ==
    IF args_birds_min > 0 /\ Len(file_keys) > 0 THEN [spc |-> "birds", fi |-> 1]
    ELSE IF Len(file_keys) > 0 THEN [spc |-> "fill", fi |-> 1]
    ELSE [spc |-> "prune", fi |-> 1]

\* where control goes when stage 3 is left
AfterBirds ==
    IF Len(file_keys) > 0 THEN [spc |-> "fill", fi |-> 1]
    ELSE [spc |-> "prune", fi |-> 1]

Goto(c) == spc' = c.spc /\ fi' = c.fi

ArgsUnchanged ==
    UNCHANGED << listdir, dir0, sel_files, args_limit, args_per_animal_max,
                 args_birds_min, args_prune, quotas, ensure_tokens >>

(***************************************************************************)
(* Stage 1, lines 117-131                                                  *)
(***************************************************************************)
\* the break of line 131: the quota is filled
QuotaFilledMutant(n, want_n) == n > want_n
QuotaFilled(n, want_n) == n >= want_n

\* lines 118-121: the head of the loop over quotas.items()
S1_Head ==
    /\ spc = "quota"
    /\ fi = 0
    /\ IF oi > Len(quotas)
       THEN spc' = "ensure" /\ oi' = 1 /\ fi' = 0
       ELSE IF quotas[oi].n <= 0 \/ Len(file_keys) = 0
            THEN spc' = spc /\ oi' = oi + 1 /\ fi' = 0
            ELSE spc' = spc /\ oi' = oi /\ fi' = 1
    /\ ArgsUnchanged
    /\ UNCHANGED << disk, selected, per, removed, report, sel_out, failures,
                    failed >>
    /\ UNCHANGED << wvars, fvars >>

\* the scan of stage 1 goes on with the next file, or ends
S1_Continue ==
    IF LastFile THEN oi' = oi + 1 /\ fi' = 0 ELSE oi' = oi /\ fi' = fi + 1

\* lines 123-124: the global limit is reached
S1_Break ==
    /\ Scanning("quota")
    /\ LimitReached
    /\ oi' = oi + 1 /\ fi' = 0
    /\ ArgsUnchanged
    /\ UNCHANGED << disk, selected, per, removed, report, sel_out, spc,
                    failures, failed >>
    /\ UNCHANGED << wvars, fvars >>

\* lines 125-127: the file is passed over
S1_Pass ==
    /\ Scanning("quota")
    /\ ~ LimitReached
    /\ \/ PerMaxReached(CurK)
       \/ ~ (CurK = quotas[oi].key /\ NotSelected(CurF))
    /\ S1_Continue
    /\ ArgsUnchanged
    /\ UNCHANGED << disk, selected, per, removed, report, sel_out, spc,
                    failures, failed >>
    /\ UNCHANGED << wvars, fvars >>

\* lines 127-131: the file is selected for the quota
S1_Select ==
    /\ Scanning("quota")
    /\ ~ LimitReached
    /\ ~ PerMaxReached(CurK)
    /\ CurK = quotas[oi].key /\ NotSelected(CurF)
    /\ Select(CurF, CurK)
    /\ IF QuotaFilled(per'[CurK], quotas[oi].n)
       THEN oi' = oi + 1 /\ fi' = 0
       ELSE S1_Continue
    /\ ArgsUnchanged
    /\ UNCHANGED << disk, removed, report, sel_out, spc, failures, failed >>
    /\ UNCHANGED << wvars, fvars >>

(***************************************************************************)
(* Stage 2, lines 133-143                                                  *)
(***************************************************************************)
\* line 137: the token is already represented
RepresentedMutant(tok) == per[tok] >= 0
Represented(tok) == per[tok] > 0

\* lines 134-138: the head of the loop over ensure_tokens
S2_Head ==
    /\ spc = "ensure"
    /\ fi = 0
    /\ IF oi > Len(ensure_tokens) \/ LimitReached
       THEN Goto(AfterEnsure) /\ oi' = oi
       ELSE IF Represented(ensure_tokens[oi]) \/ Len(file_keys) = 0
            THEN spc' = spc /\ oi' = oi + 1 /\ fi' = 0
            ELSE spc' = spc /\ oi' = oi /\ fi' = 1
    /\ ArgsUnchanged
    /\ UNCHANGED << disk, selected, per, removed, report, sel_out, failures,
                    failed >>
    /\ UNCHANGED << wvars, fvars >>

\* lines 139-140: the file is passed over
S2_Pass ==
    /\ Scanning("ensure")
    /\ ~ (CurK = ensure_tokens[oi] /\ NotSelected(CurF))
    /\ IF LastFile THEN oi' = oi + 1 /\ fi' = 0 ELSE oi' = oi /\ fi' = fi + 1
    /\ ArgsUnchanged
    /\ UNCHANGED << disk, selected, per, removed, report, sel_out, spc,
                    failures, failed >>
    /\ UNCHANGED << wvars, fvars >>

\* lines 140-143: the first match is selected, the scan ends
S2_Select ==
    /\ Scanning("ensure")
    /\ CurK = ensure_tokens[oi] /\ NotSelected(CurF)
    /\ Select(CurF, CurK)
    /\ oi' = oi + 1 /\ fi' = 0
    /\ ArgsUnchanged
    /\ UNCHANGED << disk, removed, report, sel_out, spc, failures, failed >>
    /\ UNCHANGED << wvars, fvars >>

(***************************************************************************)
(* Stage 3, lines 145-157                                                  *)
(***************************************************************************)
\* line 153: the number of selected files with a bird key
BirdCountMutant == Len(selected)
BirdCount ==
    LET IsBird(s) == animal_key_from_name(s) \in bird_tokens
    IN  Len(SelectSeq(selected, IsBird))

\* lines 151-154: the limit is reached, or birds_min is
S3_Break ==
    /\ Scanning("birds")
    /\ LimitReached \/ BirdCount >= args_birds_min
    /\ Goto(AfterBirds)
    /\ ArgsUnchanged
    /\ UNCHANGED << disk, selected, per, removed, report, sel_out, oi,
                    failures, failed >>
    /\ UNCHANGED << wvars, fvars >>

S3_Takes ==
    CurK \in bird_tokens /\ ~ PerMaxReached(CurK) /\ NotSelected(CurF)

S3_Continue ==
    IF LastFile THEN Goto(AfterBirds) ELSE spc' = spc /\ fi' = fi + 1

\* line 155: the file is passed over
S3_Pass ==
    /\ Scanning("birds")
    /\ ~ (LimitReached \/ BirdCount >= args_birds_min)
    /\ ~ S3_Takes
    /\ S3_Continue
    /\ ArgsUnchanged
    /\ UNCHANGED << disk, selected, per, removed, report, sel_out, oi,
                    failures, failed >>
    /\ UNCHANGED << wvars, fvars >>

\* lines 155-157: a bird file is selected
S3_Select ==
    /\ Scanning("birds")
    /\ ~ (LimitReached \/ BirdCount >= args_birds_min)
    /\ S3_Takes
    /\ Select(CurF, CurK)
    /\ S3_Continue
    /\ ArgsUnchanged
    /\ UNCHANGED << disk, removed, report, sel_out, oi, failures, failed >>
    /\ UNCHANGED << wvars, fvars >>

(***************************************************************************)
(* Stage 4, lines 159-168                                                  *)
(***************************************************************************)
S4_Continue ==
    IF LastFile THEN spc' = "prune" /\ fi' = 1 ELSE spc' = spc /\ fi' = fi + 1

\* lines 161-162: the limit is reached
S4_Break ==
    /\ Scanning("fill")
    /\ LimitReached
    /\ spc' = "prune" /\ fi' = 1
    /\ ArgsUnchanged
    /\ UNCHANGED << disk, selected, per, removed, report, sel_out, oi,
                    failures, failed >>
    /\ UNCHANGED << wvars, fvars >>

\* lines 163-166: the file is passed over
S4_Pass ==
    /\ Scanning("fill")
    /\ ~ LimitReached
    /\ PerMaxReached(CurK) \/ ~ NotSelected(CurF)
    /\ S4_Continue
    /\ ArgsUnchanged
    /\ UNCHANGED << disk, selected, per, removed, report, sel_out, oi,
                    failures, failed >>
    /\ UNCHANGED << wvars, fvars >>

\* lines 167-168: the file is selected
S4_Select ==
    /\ Scanning("fill")
    /\ ~ LimitReached
    /\ ~ PerMaxReached(CurK)
    /\ NotSelected(CurF)
    /\ Select(CurF, CurK)
    /\ S4_Continue
    /\ ArgsUnchanged
    /\ UNCHANGED << disk, removed, report, sel_out, oi, failures, failed >>
    /\ UNCHANGED << wvars, fvars >>

(***************************************************************************)
(* Pruning and the summary, lines 170-182                                  *)
(***************************************************************************)
\* line 171
keep == Range(selected)

\* line 174: f not in keep
ToRemoveMutant(f) == f \in keep
ToRemove(f) == f \notin keep

Pruning == spc = "prune" /\ args_prune /\ fi <= Len(sel_files)

\* line 174: a selected file is kept
P_Keep ==
    /\ Pruning
    /\ ~ ToRemove(sel_files[fi])
    /\ fi' = fi + 1
    /\ ArgsUnchanged
    /\ UNCHANGED << disk, selected, per, removed, report, sel_out, spc, oi,
                    failures, failed >>
    /\ UNCHANGED << wvars, fvars >>

\* lines 175-177: os.remove succeeds
P_Remove ==
    /\ Pruning
    /\ ToRemove(sel_files[fi])
    /\ disk' = disk \ {sel_files[fi]}
    /\ removed' = removed + 1
    /\ fi' = fi + 1
    /\ ArgsUnchanged
    /\ UNCHANGED << selected, per, report, sel_out, spc, oi, failures, failed >>
    /\ UNCHANGED << wvars, fvars >>

\* lines 175-179: os.remove raises, the exception is passed over (`pass`:
\* nothing is printed)
P_RemoveFails ==
    /\ Pruning
    /\ ToRemove(sel_files[fi])
    /\ failures < MaxRemoveFailures
    /\ failures' = failures + 1
    /\ failed' = failed \cup {sel_files[fi]}
    /\ fi' = fi + 1
    /\ ArgsUnchanged
    /\ UNCHANGED << disk, selected, per, removed, report, sel_out, spc, oi >>
    /\ UNCHANGED << wvars, fvars >>

\* lines 183-185: "Per-animal counts:" and one line per key of `per`, the
\* keys sorted; `per` holds the keys that were counted at least once
PerAnimalCounts ==
    [line |-> "Per-animal counts",
     counts |-> [k \in {x \in DOMAIN per : per[x] > 0} |-> per[k]]]

\* line 180: "Kept ... files, removed ... others."
P_Report ==
    /\ spc = "prune"
    /\ args_prune
    /\ fi > Len(sel_files)
    /\ report' = [pruned |-> TRUE, kept |-> Len(selected), removed |-> removed]
    /\ sel_out' = << [line |-> "Kept", kept |-> Len(selected),
                      removed |-> removed], PerAnimalCounts >>
    /\ spc' = "done"
    /\ ArgsUnchanged
    /\ UNCHANGED << disk, selected, per, removed, oi, fi, failures, failed >>
    /\ UNCHANGED << wvars, fvars >>

\* lines 181-182: "Would keep ... files (not pruning)."
P_NoPrune ==
    /\ spc = "prune"
    /\ ~ args_prune
    /\ report' = [pruned |-> FALSE, kept |-> Len(selected), removed |-> 0]
    /\ sel_out' = << [line |-> "Would keep", kept |-> Len(selected)],
                     PerAnimalCounts >>
    /\ spc' = "done"
    /\ ArgsUnchanged
    /\ UNCHANGED << disk, selected, per, removed, oi, fi, failures, failed >>
    /\ UNCHANGED << wvars, fvars >>

NextSelector ==
    \/ S1_Head
    \/ S1_Break
    \/ S1_Pass
    \/ S1_Select
    \/ S2_Head
    \/ S2_Pass
    \/ S2_Select
    \/ S3_Break
    \/ S3_Pass
    \/ S3_Select
    \/ S4_Break
    \/ S4_Pass
    \/ S4_Select
    \/ P_Keep
    \/ P_Remove
    \/ P_RemoveFails
    \/ P_Report
    \/ P_NoPrune

SpecSelector == InitSelector /\ [][NextSelector]_vars

\* the Selector run on a directory that os.listdir may list in either order
SpecListdir == InitListdir /\ [][NextSelector]_vars

SelectorDone == spc = "done"

(***************************************************************************)
(* Helpers of the Selector's claims                                        *)
(***************************************************************************)
\* the subsequence of the files of s whose SpeciesKey is k
WithKey(s, k) ==
    LET HasKey(f) == animal_key_from_name(f) = k IN SelectSeq(s, HasKey)

Min3(a, b, c) == Min(a, Min(b, c))

(***************************************************************************)
(* C5: the number of selected file names never exceeds the global limit,   *)
(* in any state of any stage (so after every single addition).             *)
(***************************************************************************)
C5_WithinLimit == Len(selected) <= args_limit

\* a finished run with quotas, ensure keys and a bird minimum that filled
\* the limit and left files out
C5_Witness ==
    /\ SelectorDone
    /\ args_limit > 0
    /\ Len(selected) = args_limit
    /\ Len(sel_files) > args_limit
    /\ quotas # << >>
    /\ ensure_tokens # << >>
    /\ args_birds_min > 0

(***************************************************************************)
(* C6: `selected` never contains the same file name twice.                 *)
(***************************************************************************)
C6_NoDuplicates == NoDup(selected)

\* a finished run that selected a file whose key is at once a quota key, an
\* ensure key and a bird token
C6_Witness ==
    /\ SelectorDone
    /\ "parrot_1.jpg" \in Range(selected)
    /\ \E i \in DOMAIN quotas : quotas[i].key = "parrot" /\ quotas[i].n > 0
    /\ "parrot" \in Range(ensure_tokens)
    /\ args_birds_min > 0
    /\ args_per_animal_max > 0

(***************************************************************************)
(* C7: no step of stages 2, 3 and 4 takes the count of a key from a value  *)
(* <= perKeyMax to a value > perKeyMax.                                    *)
(***************************************************************************)
C7_Step ==
    spc \in {"ensure", "birds", "fill"} =>
       (\A k \in Keys :
           per[k] <= args_per_animal_max => per'[k] <= args_per_animal_max)

C7_PerKeyMaxAfterStage1 == [][C7_Step]_vars

(***************************************************************************)
(* C8 (as claimed): when the run is over, every ensure key that some file  *)
(* has is represented in the selection, for any quotas and any global      *)
(* limit >= 1.                                                             *)
(***************************************************************************)
HasFile(k) == WithKey(sel_files, k) # << >>

HasSelected(k) == WithKey(selected, k) # << >>

AfterStage1 == spc = "ensure" /\ oi = 1 /\ fi = 0

QuotaScenario ==
    /\ sel_files = << "lion_a.jpg", "lion_b.jpg", "lion_c.jpg", "tiger_a.jpg" >>
    /\ args_per_animal_max = 2
    /\ quotas = << [key |-> "lion", n |-> 2] >>
    /\ args_limit >= 2

C9_QuotaFilled ==
    AfterStage1 =>
       /\ Len(selected) < args_limit =>
             \A i \in DOMAIN quotas :
                quotas[i].n > 0 =>
                   LET K == quotas[i].key
                       all == WithKey(sel_files, K)
                       m == Min3(quotas[i].n, args_per_animal_max, Len(all))
                   IN  WithKey(selected, K) = SubSeq(all, 1, m)
       /\ QuotaScenario => selected = << "lion_a.jpg", "lion_b.jpg" >>

\* the quota scenario at the end of stage 1, the limit not reached
C9_Witness ==
    /\ AfterStage1
    /\ QuotaScenario
    /\ Len(selected) = 2
    /\ Len(selected) < args_limit

(***************************************************************************)
(* C10 (as claimed): with --prune the run leaves, of the listed files,     *)
(* exactly the selected ones, and reports len(selected) kept and           *)
(* len(files) - len(selected) removed; without --prune nothing is removed. *)
(***************************************************************************)
C10_PruneExact ==
    SelectorDone =>
       IF args_prune
       THEN /\ disk \cap Range(sel_files) = Range(selected)
            /\ report.kept = Len(selected)
            /\ report.removed = Len(sel_files) - Len(selected)
       ELSE disk = dir0

(***************************************************************************)
(* C10 (amended): the run removes only listed files that are not selected  *)
(* and never a selected file; `removed` counts the files actually deleted; *)
(* the report gives len(selected) and that count, which is                 *)
(* len(files) - len(selected) less the deletions that raised; when none    *)
(* raised, exactly the selected files are left of the listed ones.         *)
(* Without --prune nothing is removed.                                     *)
(***************************************************************************)
C10_PruneSound ==
    /\ Range(selected) \subseteq disk
    /\ (dir0 \ disk) \subseteq (Range(sel_files) \ Range(selected))
    /\ removed = Cardinality(dir0 \ disk)
    /\ ~ args_prune => disk = dir0
    /\ SelectorDone =>
          /\ report.kept = Len(selected)
          /\ report.removed = Cardinality(dir0 \ disk)
          /\ args_prune =>
                /\ report.removed = Len(sel_files) - Len(selected) - failures
                /\ failures = 0 => disk \cap Range(sel_files) = Range(selected)

\* the prune scenario: 3 of 5 files selected, the other 2 removed
C10_Witness ==
    /\ SelectorDone
    /\ args_prune
    /\ Len(sel_files) = 5
    /\ Len(selected) = 3
    /\ report.removed = 2
    /\ Cardinality(disk \cap Range(sel_files)) = 3

(***************************************************************************)
(* The selection as a function of the SET of names in the directory and    *)
(* of the flags: the four stages applied to the names in increasing order. *)
(***************************************************************************)
RECURSIVE InOrder(_)
InOrder(S) ==
    IF S = {} THEN << >>
    ELSE LET f == CHOOSE x \in S : \A y \in S : Rank(x) <= Rank(y)
         IN  << f >> \o InOrder(S \ {f})

FnTake(a, f) ==
    [sel |-> Append(a.sel, f),
     per |-> [a.per EXCEPT ![animal_key_from_name(f)] = @ + 1]]

FnFull(a) == Len(a.sel) >= args_limit

FnOpen(a, f) == a.per[animal_key_from_name(f)] < args_per_animal_max

FnNew(a, f) == f \notin Range(a.sel)

RECURSIVE FnQuota(_, _, _, _, _)
FnQuota(fs, i, K, n, a) ==
    IF i > Len(fs) \/ FnFull(a) THEN a
    ELSE IF FnOpen(a, fs[i]) /\ animal_key_from_name(fs[i]) = K /\ FnNew(a, fs[i])
         THEN LET b == FnTake(a, fs[i])
              IN  IF b.per[K] >= n THEN b ELSE FnQuota(fs, i + 1, K, n, b)
         ELSE FnQuota(fs, i + 1, K, n, a)

RECURSIVE FnStage1(_, _, _)
FnStage1(fs, j, a) ==
    IF j > Len(quotas) THEN a
    ELSE FnStage1(fs, j + 1,
            IF quotas[j].n <= 0 THEN a
            ELSE FnQuota(fs, 1, quotas[j].key, quotas[j].n, a))

RECURSIVE FnStage2(_, _, _)
FnStage2(fs, j, a) ==
    IF j > Len(ensure_tokens) \/ FnFull(a) THEN a
    ELSE LET tok == ensure_tokens[j]
             cands == {i \in DOMAIN fs :
                         animal_key_from_name(fs[i]) = tok /\ FnNew(a, fs[i])}
             first == CHOOSE i \in cands : \A x \in cands : i <= x
         IN  FnStage2(fs, j + 1,
                IF a.per[tok] > 0 \/ cands = {} THEN a ELSE FnTake(a, fs[first]))

FnBirds(a) ==
    Cardinality({i \in DOMAIN a.sel : animal_key_from_name(a.sel[i]) \in bird_tokens})

RECURSIVE FnStage3(_, _, _)
FnStage3(fs, i, a) ==
    IF i > Len(fs) \/ FnFull(a) \/ FnBirds(a) >= args_birds_min THEN a
    ELSE FnStage3(fs, i + 1,
            IF animal_key_from_name(fs[i]) \in bird_tokens
               /\ FnOpen(a, fs[i]) /\ FnNew(a, fs[i])
            THEN FnTake(a, fs[i]) ELSE a)

RECURSIVE FnStage4(_, _, _)
FnStage4(fs, i, a) ==
    IF i > Len(fs) \/ FnFull(a) THEN a
    ELSE FnStage4(fs, i + 1,
            IF FnOpen(a, fs[i]) /\ FnNew(a, fs[i]) THEN FnTake(a, fs[i]) ELSE a)

FnSelection(names) ==
    LET fs == InOrder({f \in names : ~ StartsWithDot(f)})
        a0 == [sel |-> << >>, per |-> [k \in Keys |-> 0]]
        a1 == FnStage1(fs, 1, a0)
        a2 == FnStage2(fs, 1, a1)
        a3 == IF args_birds_min > 0 THEN FnStage3(fs, 1, a2) ELSE a2
    IN  FnStage4(fs, 1, a3)

(***************************************************************************)
(* C11: the ordered selection and the per-key counts (as kept in `per`     *)
(* and as printed) depend only on the set of names in the directory and on *)
(* the flags, not on the order in which os.listdir returned the names:     *)
(* every finished run of a directory, whichever way it was listed, has the *)
(* one selection FnSelection gives for its set of names.                   *)
(***************************************************************************)
C11_Deterministic ==
    SelectorDone =>
       LET fn == FnSelection(dir0)
       IN  /\ selected = fn.sel
           /\ per = fn.per
           /\ sel_out[2].counts =
                 [k \in {x \in Keys : fn.per[x] > 0} |-> fn.per[k]]

\* a finished run whose directory was listed out of order, the names
\* lion_a, lion_b, lion_c, tiger_a returned backwards
C11_Witness ==
    /\ SelectorDone
    /\ listdir = << "lion_a.jpg", "lion_c.jpg", "lion_b.jpg", "tiger_a.jpg" >>
    /\ listdir # sel_files
    /\ Len(selected) >= 3
    /\ selected[1] = "lion_a.jpg"

(***************************************************************************)
(* C17 (as claimed): when the quota of key K is larger than perKeyMax,     *)
(* more than perKeyMax files with key K exist and the global limit leaves  *)
(* room, stage 1 selects more than perKeyMax files with key K.             *)
(***************************************************************************)
QuotaOverMax(i) ==
    /\ quotas[i].n > args_per_animal_max
    /\ Len(WithKey(sel_files, quotas[i].key)) > args_per_animal_max
    /\ Len(selected) < args_limit

C17_QuotaExceedsMax ==
    AfterStage1 =>
       \A i \in DOMAIN quotas :
          QuotaOverMax(i) =>
             Len(WithKey(selected, quotas[i].key)) > args_per_animal_max

(***************************************************************************)
(* C17 (amended): stage 1 applies the per-key-max test to every file it    *)
(* looks at, so at no moment of stage 1 are more than perKeyMax files of   *)
(* one key selected; when the quota of key K is larger than perKeyMax,     *)
(* more than perKeyMax files with key K exist and the global limit leaves  *)
(* room, stage 1 selects exactly the first perKeyMax files with key K.     *)
(***************************************************************************)
C17_QuotaWithinMax ==
    /\ spc = "quota" \/ AfterStage1 =>
          \A k \in Keys : Len(WithKey(selected, k)) <= args_per_animal_max
    /\ AfterStage1 =>
          \A i \in DOMAIN quotas :
             QuotaOverMax(i) =>
                WithKey(selected, quotas[i].key) =
                   SubSeq(WithKey(sel_files, quotas[i].key), 1, args_per_animal_max)

\* quota lion=3 with perKeyMax 2, three lion files and room under the limit:
\* stage 1 ends with two lions
C17_Witness ==
    /\ AfterStage1
    /\ Len(quotas) >= 1
    /\ quotas[1] = [key |-> "lion", n |-> 3]
    /\ QuotaOverMax(1)
    /\ args_per_animal_max = 2
    /\ selected = << "lion_a.jpg", "lion_b.jpg" >>

(***************************************************************************)
(* C19: stage 3 runs only when birdsMin > 0.  Each file it adds is a       *)
(* bird-keyed file, appended while fewer than birdsMin bird-keyed files    *)
(* (of any stage) are selected and the limit is not reached, and is the    *)
(* next one in lexicographic order: every bird-keyed file before it is     *)
(* selected or has a key at perKeyMax.  When stage 3 is over, birdsMin     *)
(* bird-keyed files are selected, or the limit is reached, or every        *)
(* unselected bird-keyed file has a key whose count is >= perKeyMax.       *)
(***************************************************************************)
IsBirdFile(f) == animal_key_from_name(f) \in bird_tokens

SelectedBirds == Len(SelectSeq(selected, IsBirdFile))

BirdBlocked(f) ==
    \/ f \in Range(selected)
    \/ Len(WithKey(selected, animal_key_from_name(f))) >= args_per_animal_max

Stage3Over == args_birds_min > 0 /\ spc = "fill" /\ fi = 1

C19_AtEnd ==
    /\ spc = "birds" => args_birds_min > 0
    /\ Stage3Over =>
          \/ SelectedBirds >= args_birds_min
          \/ Len(selected) >= args_limit
          \/ \A f \in Range(sel_files) : IsBirdFile(f) => BirdBlocked(f)

C19_Step ==
    (spc = "birds" /\ selected' # selected) =>
       /\ SelectedBirds < args_birds_min
       /\ Len(selected) < args_limit
       /\ selected' = Append(selected, sel_files[fi])
       /\ IsBirdFile(sel_files[fi])
       /\ \A j \in 1 .. (fi - 1) : IsBirdFile(sel_files[j]) => BirdBlocked(sel_files[j])

C19_BirdsMin == [] C19_AtEnd /\ [][C19_Step]_vars

\* stage 3 alone (no quota, no ensure token) has selected the first two
\* bird files and left the third one, birdsMin = 2 being met under the limit
C19_Witness ==
    /\ Stage3Over
    /\ args_birds_min = 2
    /\ quotas = << >>
    /\ ensure_tokens = << >>
    /\ args_limit = 3
    /\ selected = << "owl_night.jpg", "parrot_1.jpg" >>
    /\ "zoo_parrot.jpg" \in Range(sel_files)

(***************************************************************************)
(* C20: when stage 4 is over, the selection holds `limit` files, or every  *)
(* unselected file has a SpeciesKey of which perKeyMax files or more are   *)
(* selected: no file that both bounds still allow is left out.             *)
(***************************************************************************)
C20_Maximal ==
    spc \in {"prune", "done"} =>
       \/ Len(selected) = args_limit
       \/ \A f \in Range(sel_files) \ Range(selected) :
             Len(WithKey(selected, animal_key_from_name(f))) >= args_per_animal_max

\* a finished run under the limit that left lion_b out, one lion being the
\* per-key maximum
C20_Witness ==
    /\ SelectorDone
    /\ args_per_animal_max = 1
    /\ args_limit = 3
    /\ selected = << "lion_a.jpg", "tiger_a.jpg" >>
    /\ "lion_b.jpg" \in Range(sel_files)

(***************************************************************************)
(* C18: on every graph (cycles and self-containing categories included),   *)
(* whatever page sizes the service chooses, the Walker returns its result; *)
(* until then it makes at most one listing request per page of each        *)
(* category, each category being listed at most once.                      *)
(***************************************************************************)
\* the most pages the listing of a category can come in (a page of a
\* non-empty listing holds at least one member)
PagesOf(name) == IF Len(graph[name]) = 0 THEN 1 ELSE Len(graph[name])

RequestBound ==
    PagesOf("root") + PagesOf("c1") + PagesOf("c2") + PagesOf("c3")

C18_Terminates == [](Len(requests) <= RequestBound) /\ <>WalkerDone

\* the Walker has returned from a graph where root contains itself and c1
\* leads back to root, after re-entry was refused
C18_Witness ==
    /\ WalkerDone
    /\ Cat("root") \in Range(graph.root)
    /\ Cat("root") \in Range(graph.c1)
    /\ Len(entered) >= 2
    /\ Len(requests) >= 3

(***************************************************************************)
(* The fetcher's main, scrape_wikimedia_animals.py lines 128-196.  Strings *)
(* that the filters look into are tuples of one-character strings.         *)
(***************************************************************************)
MaxFetchLimit == 3      \* args.limit of the fetcher ranges over 0..MaxFetchLimit
BatchSize == 2          \* titles per imageinfo request (50 in line 99)

UpperCase == << "A", "B", "C", "D", "E", "F", "G", "H", "I", "J", "K", "L", "M",
                "N", "O", "P", "Q", "R", "S", "T", "U", "V", "W", "X", "Y", "Z" >>

LowerCase == << "a", "b", "c", "d", "e", "f", "g", "h", "i", "j", "k", "l", "m",
                "n", "o", "p", "q", "r", "s", "t", "u", "v", "w", "x", "y", "z" >>

Digits == { "0", "1", "2", "3", "4", "5", "6", "7", "8", "9" }

\* str.lower()
LowerChar(c) ==
    IF c \in Range(UpperCase)
    THEN LowerCase[CHOOSE i \in DOMAIN UpperCase : UpperCase[i] = c]
    ELSE c

LowerStr(str) == [i \in DOMAIN str |-> LowerChar(str[i])]

\* str.strip()
RECURSIVE Strip(_)
Strip(str) ==
    IF str = << >> THEN str
    ELSE IF Head(str) = " " THEN Strip(Tail(str))
    ELSE IF str[Len(str)] = " " THEN Strip(SubSeq(str, 1, Len(str) - 1))
    ELSE str

\* str.endswith(suffix)
EndsWith(str, suffix) ==
    /\ Len(suffix) <= Len(str)
    /\ SubSeq(str, Len(str) - Len(suffix) + 1, Len(str)) = suffix

\* k in str
Contains(k, str) ==
    \E i \in 0 .. (Len(str) - Len(k)) : SubSeq(str, i + 1, i + Len(k)) = k

\* os.path.basename(url)
Basename(url) ==
    LET slashes == {i \in DOMAIN url : url[i] = "/"}
        last == CHOOSE i \in slashes : \A j \in slashes : j <= i
    IN  IF slashes = {} THEN url ELSE SubSeq(url, last + 1, Len(url))

\* lines 122-125
sanitize_filename(name) ==
    LET underscored == [i \in DOMAIN name |-> IF name[i] = " " THEN "_" ELSE name[i]]
        Allowed(c) == c \in Range(UpperCase) \cup Range(LowerCase) \cup Digits
                            \cup { "_", ".", "-" }
    IN  SelectSeq(underscored, Allowed)

\* lines 140-142: [s.strip().lower() for s in pieces if s.strip()]
StripLower(pieces) ==
    LET NotBlank(piece) == Strip(piece) # << >>
        left == SelectSeq(pieces, NotBlank)
    IN  [i \in DOMAIN left |-> LowerStr(Strip(left[i]))]

include_kw == StripLower(f_args.include)
exclude_kw == StripLower(f_args.exclude)
exclude_ext == StripLower(f_args.exclude_ext)

\* m["title"] of a file member, as a string
TitleStr(title) == << "F", "i", "l", "e", ":" >> \o << title.name >>

\* line 152: list(dict.fromkeys(titles))
RECURSIVE Dedup(_)
Dedup(seq) ==
    IF seq = << >> THEN << >>
    ELSE LET front == Dedup(SubSeq(seq, 1, Len(seq) - 1))
             x == seq[Len(seq)]
         IN  IF x \in Range(front) THEN front ELSE Append(front, x)

(***************************************************************************)
(* Inputs of the fetcher                                                   *)
(***************************************************************************)
LoopGraph ==
    [root |-> << File("a"), Cat("c1"), File("b") >>,
     c1 |-> << Cat("root"), Other("x"), File("a"), File("e") >>,
     c2 |-> << >>,
     c3 |-> << File("e") >>]

FetcherGraphs == { ExampleGraph, LoopGraph }

\* --category, repeatable
CategoryArgs ==
    { << Cat("root") >>, << Cat("c1"), Cat("root") >>, << Cat("c2") >> }

\* --include, --exclude and --exclude-ext, split at the commas
IncludeArgs ==
    { << << >> >>,
      << << "C", "a", "t" >>, << " " >>, << " ", "d", "o", "g" >> >> }

ExcludeArgs == { << << >> >>, << << "S", "e", "a" >> >> }

ExcludeExtArgs ==
    { << << ".", "s", "v", "g" >> >>,
      << << ".", "T", "I", "F" >>, << ".", "p", "n", "g" >> >> }

NoImageInfo == [has |-> FALSE]

ImageInfo(url, width, height) ==
    [has |-> TRUE, url |-> url, width |-> width, height |-> height,
     license |-> << "C", "C", " " >>]

\* what the service knows of the files a, b, c and e
Commons ==
    { [a |-> ImageInfo(<< "u", "/", "C", "a", "t", " ", "1", ".", "j", "p", "g" >>,
                       500, 700),
       b |-> ImageInfo(<< "u", "/", "d", "o", "g", ".", "j", "p", "g" >>, 500, 500),
       c |-> ImageInfo(<< "u", "/", "S", "e", "a", "(", "c", "a", "t", ")", ".",
                          "S", "V", "G" >>, 800, 800),
       e |-> NoImageInfo],
      [a |-> ImageInfo(<< >>, 800, 800),
       b |-> ImageInfo(<< "u", "/", "B", "i", "g", " ", "d", "o", "g", ".", "p",
                          "n", "g" >>, 700, 500),
       c |-> ImageInfo(<< "u", "/", "s", "e", "a", " ", "l", "i", "o", "n", ".",
                          "j", "p", "g" >>, 640, 640),
       e |-> ImageInfo(<< "v", "/", "w", "/", "e", "e", "l", ".", "j", "p", "g" >>,
                       100, 640)] }

\* line 160
Header == << "filename", "source_url", "license", "artist", "credit" >>

NoCsv == [exists |-> FALSE, header |-> << >>, rows |-> << >>]

\* a metadata file left by an earlier run
OldCsv ==
    [exists |-> TRUE, header |-> Header,
     rows |-> << [filename |-> << "o", ".", "j", "p", "g" >>,
                  source_url |-> << "u", "/", "o", ".", "j", "p", "g" >>,
                  license |-> << "C", "C" >>, artist |-> << >>,
                  credit |-> << >>] >>]

NoError == [call |-> "none"]

\* lines 128-143: main has parsed its arguments
InitFetcher ==
    /\ SelectorIdle
    /\ graph \in FetcherGraphs
    /\ category = Cat("root")
    /\ limit = 0
    /\ max_depth = 0
    /\ files = << >>
    /\ visited = {}
    /\ stack = << >>
    /\ result = << >>
    /\ wpc = "idle"
    /\ entered = << >>
    /\ requests = << >>
    /\ f_args \in [category : CategoryArgs, limit : 0 .. MaxFetchLimit,
                   include : IncludeArgs, exclude : ExcludeArgs,
                   exclude_ext : ExcludeExtArgs]
    /\ commons \in Commons
    /\ csv0 \in { NoCsv, OldCsv }
    /\ csv = csv0
    /\ csv_opened = FALSE
    /\ out_files = << >>
    /\ titles = << >>
    /\ ci = 1
    /\ info = << >>
    /\ bi = 0
    /\ item_i = 0
    /\ downloaded = 0
    /\ kept = 0
    /\ f_out = << >>
    /\ fpc = "gather"
    /\ error = NoError
    /\ outcome = << >>
    /\ got = << >>

(***************************************************************************)
(* Gathering the titles, lines 144-155                                     *)
(***************************************************************************)
\* line 147
remaining == f_args.limit - Len(titles)

GatherOver == ci > Len(f_args.category) \/ remaining <= 0

\* an exception that nothing in main catches leaves main
RaiseMutant(pc) == pc
Raise(pc) == "raised"

\* lines 146-150: the call of fetch_category_files_recursive(cat, remaining)
F_CallWalker ==
    /\ fpc = "gather"
    /\ ~ GatherOver
    /\ category' = f_args.category[ci]
    /\ limit' = remaining
    /\ max_depth' = 3
    /\ files' = << >>
    /\ visited' = {}
    /\ stack' = << Frame(f_args.category[ci], 0) >>
    /\ result' = << >>
    /\ wpc' = "walking"
    /\ entered' = << >>
    /\ requests' = << >>
    /\ fpc' = "walk"
    /\ UNCHANGED << graph, svars >>
    /\ UNCHANGED << f_args, commons, csv0, csv, csv_opened, out_files, titles, ci,
                    info, bi, item_i, downloaded, kept, f_out, error, outcome, got >>

\* lines 59-60: the listing request fails (requests.get or raise_for_status
\* raises); neither walk nor main catches it
FetchPageRaises ==
    /\ fpc = "walk"
    /\ Walking
    /\ Top.pc = "while"
    /\ Len(files) < limit
    /\ error' = [call |-> "categorymembers", cat |-> Top.cat, cont |-> Top.cont]
    /\ wpc' = Raise(wpc)
    /\ fpc' = Raise(fpc)
    /\ UNCHANGED << graph, category, limit, max_depth, files, visited, stack,
                    result, entered, requests, svars >>
    /\ UNCHANGED << f_args, commons, csv0, csv, csv_opened, out_files, titles, ci,
                    info, bi, item_i, downloaded, kept, f_out, outcome, got >>

\* line 150: titles.extend(the titles of the files returned)
F_Extend ==
    /\ fpc = "walk"
    /\ wpc = "done"
    /\ titles' = titles \o result
    /\ ci' = ci + 1
    /\ fpc' = "gather"
    /\ wpc' = "idle"
    /\ UNCHANGED << graph, category, limit, max_depth, files, visited, stack,
                    result, entered, requests, svars >>
    /\ UNCHANGED << f_args, commons, csv0, csv, csv_opened, out_files, info, bi,
                    item_i, downloaded, kept, f_out, error, outcome, got >>

\* lines 152-155: no title was gathered; main returns
F_NoTitles ==
    /\ fpc = "gather"
    /\ GatherOver
    /\ Dedup(titles) = << >>
    /\ titles' = Dedup(titles)
    /\ f_out' = Append(f_out, [line |-> "No images found for:",
                               category |-> f_args.category])
    /\ fpc' = "done"
    /\ UNCHANGED << wvars, svars >>
    /\ UNCHANGED << f_args, commons, csv0, csv, csv_opened, out_files, ci, info, bi,
                    item_i, downloaded, kept, error, outcome, got >>

\* lines 152-156: the titles without repetitions go to fetch_image_info
F_Dedup ==
    /\ fpc = "gather"
    /\ GatherOver
    /\ Dedup(titles) # << >>
    /\ titles' = Dedup(titles)
    /\ bi' = 0
    /\ fpc' = "info"
    /\ UNCHANGED << wvars, svars >>
    /\ UNCHANGED << f_args, commons, csv0, csv, csv_opened, out_files, ci, info,
                    item_i, downloaded, kept, f_out, error, outcome, got >>

(***************************************************************************)
(* fetch_image_info, lines 97-119                                          *)
(***************************************************************************)
\* line 100: titles[i : i + 50]
Batch == SubSeq(titles, bi + 1, Min(bi + BatchSize, Len(titles)))

\* info[title] = ii
PutInfo(d, title, ii) ==
    LET at == {i \in DOMAIN d : d[i].title = title}
    IN  IF at = {} THEN Append(d, [title |-> title, ii |-> ii])
        ELSE [i \in DOMAIN d |-> IF i \in at THEN [title |-> title, ii |-> ii]
                                 ELSE d[i]]

\* lines 113-117: the pages of one response, in the order the service gave
RECURSIVE PutPages(_, _)
PutPages(d, pages) ==
    IF pages = << >> THEN d
    ELSE LET ii == commons[Head(pages).name]
         IN  PutPages(IF ii.has THEN PutInfo(d, Head(pages), ii) ELSE d,
                      Tail(pages))

\* lines 99-118: one batch is asked for and answered
F_InfoBatch ==
    /\ fpc = "info"
    /\ bi < Len(titles)
    /\ \E pages \in { Batch, Reverse(Batch) } : info' = PutPages(info, pages)
    /\ bi' = bi + BatchSize
    /\ UNCHANGED << wvars, svars >>
    /\ UNCHANGED << f_args, commons, csv0, csv, csv_opened, out_files, titles, ci,
                    item_i, downloaded, kept, f_out, fpc, error, outcome, got >>

\* lines 109-110: the imageinfo request fails; main does not catch it
F_InfoRaises ==
    /\ fpc = "info"
    /\ bi < Len(titles)
    /\ error' = [call |-> "imageinfo", batch |-> Batch]
    /\ fpc' = Raise(fpc)
    /\ UNCHANGED << wvars, svars >>
    /\ UNCHANGED << f_args, commons, csv0, csv, csv_opened, out_files, titles, ci,
                    info, bi, item_i, downloaded, kept, f_out, outcome, got >>

(***************************************************************************)
(* The filter and persist loop, lines 158-196                              *)
(***************************************************************************)
\* line 158: open(meta_path, "w") truncates the file
OpenCsvMutant(old) == old
OpenCsv(old) == << >>

\* lines 119 and 158-162: info is complete; the CSV is opened and its header
\* written
F_Open ==
    /\ fpc = "info"
    /\ bi >= Len(titles)
    /\ csv' = [exists |-> TRUE, header |-> Header, rows |-> OpenCsv(csv.rows)]
    /\ csv_opened' = TRUE
    /\ downloaded' = 0
    /\ kept' = 0
    /\ item_i' = 1
    /\ fpc' = "items"
    /\ UNCHANGED << wvars, svars >>
    /\ UNCHANGED << f_args, commons, csv0, out_files, titles, ci, info, bi, f_out,
                    error, outcome, got >>

InItems == fpc = "items" /\ item_i <= Len(info)

CurTitle == info[item_i].title
CurII == info[item_i].ii

\* line 167: width < 640 and height < 640
TooSmallMutant(width, height) == width < 640 \/ height < 640
TooSmall(width, height) == width < 640 /\ height < 640

\* line 169
BaseOf(ii) == sanitize_filename(Basename(ii.url))

\* line 174
title_l(title, base) == LowerStr(TitleStr(title)) \o << " " >> \o LowerStr(base)

\* lines 167-179: one of the four `continue` tests holds
Filtered(title, ii) ==
    \/ ii.url = << >> \/ TooSmall(ii.width, ii.height)
    \/ \E i \in DOMAIN exclude_ext : EndsWith(LowerStr(BaseOf(ii)), exclude_ext[i])
    \/ /\ exclude_kw # << >>
       /\ \E i \in DOMAIN exclude_kw :
             Contains(exclude_kw[i], title_l(title, BaseOf(ii)))
    \/ /\ include_kw # << >>
       /\ ~ \E i \in DOMAIN include_kw :
               Contains(include_kw[i], title_l(title, BaseOf(ii)))

\* where the loop goes on after the except clause of lines 194-195
AfterFailureMutant(i) == Len(info) + 1
AfterFailure(i) == i + 1

\* lines 164-179: the item is filtered out
F_Skip ==
    /\ InItems
    /\ Filtered(CurTitle, CurII)
    /\ item_i' = item_i + 1
    /\ outcome' = Append(outcome, "skipped")
    /\ UNCHANGED << wvars, svars >>
    /\ UNCHANGED << f_args, commons, csv0, csv, csv_opened, out_files, titles, ci,
                    info, bi, downloaded, kept, f_out, fpc, error, got >>

\* lines 188-189: the row of an image
Row(ii) ==
    [filename |-> BaseOf(ii), source_url |-> ii.url, license |-> Strip(ii.license),
     artist |-> << >>, credit |-> << >>]

WriteFile(name, state) ==
    [n \in DOMAIN out_files \cup {name} |-> IF n = name THEN state ELSE out_files[n]]

\* lines 181-193: the image is downloaded and written, its row is written
F_Saved ==
    /\ InItems
    /\ ~ Filtered(CurTitle, CurII)
    /\ got' = Append(got, CurII.url)
    /\ out_files' = WriteFile(BaseOf(CurII), "whole")
    /\ csv' = [csv EXCEPT !.rows = Append(@, Row(CurII))]
    /\ downloaded' = downloaded + 1
    /\ kept' = kept + 1
    /\ f_out' = Append(f_out, [line |-> "Saved", item |-> BaseOf(CurII)])
    /\ outcome' = Append(outcome, "saved")
    /\ item_i' = item_i + 1
    /\ UNCHANGED << wvars, svars >>
    /\ UNCHANGED << f_args, commons, csv0, csv_opened, titles, ci, info, bi, fpc,
                    error >>

\* lines 182-183 and 194-195: requests.get or raise_for_status raises
F_DownloadFails ==
    /\ InItems
    /\ ~ Filtered(CurTitle, CurII)
    /\ got' = Append(got, CurII.url)
    /\ f_out' = Append(f_out, [line |-> "Failed", item |-> CurII.url])
    /\ outcome' = Append(outcome, "failed")
    /\ item_i' = AfterFailure(item_i)
    /\ UNCHANGED << wvars, svars >>
    /\ UNCHANGED << f_args, commons, csv0, csv, csv_opened, out_files, titles, ci,
                    info, bi, downloaded, kept, fpc, error >>

\* lines 184-185 and 194-195: the download succeeds, then open(out_path, "wb")
\* raises (nothing is written) or imgf.write raises (a broken file is left)
F_WriteFails ==
    /\ InItems
    /\ ~ Filtered(CurTitle, CurII)
    /\ got' = Append(got, CurII.url)
    /\ \/ out_files' = out_files
       \/ out_files' = WriteFile(BaseOf(CurII), "broken")
    /\ f_out' = Append(f_out, [line |-> "Failed", item |-> CurII.url])
    /\ outcome' = Append(outcome, "failed")
    /\ item_i' = AfterFailure(item_i)
    /\ UNCHANGED << wvars, svars >>
    /\ UNCHANGED << f_args, commons, csv0, csv, csv_opened, titles, ci, info, bi,
                    downloaded, kept, fpc, error >>

\* line 196: the loop is over, the counts are printed, the CSV is closed
F_Finish ==
    /\ fpc = "items"
    /\ item_i > Len(info)
    /\ f_out' = Append(f_out, [line |-> "Downloaded", downloaded |-> downloaded,
                               kept |-> kept])
    /\ fpc' = "done"
    /\ UNCHANGED << wvars, svars >>
    /\ UNCHANGED << f_args, commons, csv0, csv, csv_opened, out_files, titles, ci,
                    info, bi, item_i, downloaded, kept, error, outcome, got >>

NextFetcher ==
    \/ F_CallWalker
    \/ NextWalker
    \/ FetchPageRaises
    \/ F_Extend
    \/ F_NoTitles
    \/ F_Dedup
    \/ F_InfoBatch
    \/ F_InfoRaises
    \/ F_Open
    \/ F_Skip
    \/ F_Saved
    \/ F_DownloadFails
    \/ F_WriteFails
    \/ F_Finish

SpecFetcher == InitFetcher /\ [][NextFetcher]_vars

FetcherDone == fpc = "done"

(***************************************************************************)
(* Helpers of the fetcher's claims                                         *)
(***************************************************************************)
\* the items of info the loop has gone through
Processed == SubSeq(info, 1, Len(outcome))

\* the positions of the processed items whose outcome is one of `kinds`
RECURSIVE Positions(_, _)
Positions(n, kinds) ==
    IF n = 0 THEN << >>
    ELSE IF outcome[n] \in kinds THEN Append(Positions(n - 1, kinds), n)
    ELSE Positions(n - 1, kinds)

SavedAt == Positions(Len(outcome), {"saved"})
TriedAt == Positions(Len(outcome), {"saved", "failed"})

NameOf(ii) == sanitize_filename(Basename(ii.url))

\* the metadata rows of the items saved so far in this run
RowsOfRun ==
    [k \in DOMAIN SavedAt |->
        LET ii == info[SavedAt[k]].ii
        IN  [filename |-> NameOf(ii), source_url |-> ii.url,
             license |-> Strip(ii.license), artist |-> << >>, credit |-> << >>]]

(***************************************************************************)
(* C12: an item of info is downloaded (its url is requested) if and only   *)
(* if it passes the five predicates: url non-empty; not (width < 640 and   *)
(* height < 640); the sanitized basename, lowercased, ends with no         *)
(* excluded extension; no exclude keyword is a substring of the lowercase  *)
(* title + " " + basename; with a non-empty include list, some include     *)
(* keyword is such a substring.  So 500 x 700 passes the size predicate    *)
(* and 500 x 500 fails it.                                                 *)
(***************************************************************************)
C12_Passes(item) ==
    LET ii == item.ii
        text == LowerStr(TitleStr(item.title) \o << " " >> \o NameOf(ii))
    IN  /\ ii.url # << >>
        /\ ~ (ii.width < 640 /\ ii.height < 640)
        /\ \A i \in DOMAIN exclude_ext :
              ~ EndsWith(LowerStr(NameOf(ii)), exclude_ext[i])
        /\ \A i \in DOMAIN exclude_kw : ~ Contains(exclude_kw[i], text)
        /\ include_kw # << >> =>
              \E i \in DOMAIN include_kw : Contains(include_kw[i], text)

C12_DownloadedIffPasses ==
    fpc \in {"items", "done"} =>
       /\ \A i \in DOMAIN outcome :
             (outcome[i] # "skipped") <=> C12_Passes(info[i])
       /\ got = [k \in DOMAIN SelectSeq(Processed, C12_Passes) |->
                    SelectSeq(Processed, C12_Passes)[k].ii.url]

\* a finished run that downloaded a 500 x 700 image and another one, and
\* skipped a 500 x 500 image
C12_Witness ==
    /\ FetcherDone
    /\ Len(outcome) = 3
    /\ \E i, j, k \in DOMAIN outcome :
          /\ info[i].ii.width = 500 /\ info[i].ii.height = 700
          /\ outcome[i] = "saved"
          /\ info[j].ii.width = 500 /\ info[j].ii.height = 500
          /\ outcome[j] = "skipped"
          /\ k # i /\ outcome[k] = "saved"

(***************************************************************************)
(* C13: a surviving item whose download or file write fails gets no        *)
(* metadata row and is not counted; one "Failed" line with its url is      *)
(* printed; its url is requested once only; and the loop goes on to the    *)
(* next item: whatever failed before, every item of info is gone through,  *)
(* each is tried exactly when it passes the filters, and the rows, the     *)
(* counters and the printed lines are those of the items saved and failed. *)
(***************************************************************************)
C13_FailureIsLocal ==
    csv_opened =>
       /\ Len(outcome) = item_i - 1
       /\ FetcherDone => Len(outcome) = Len(info)
       /\ \A i \in DOMAIN outcome :
             (outcome[i] = "skipped") <=> Filtered(info[i].title, info[i].ii)
       /\ csv.rows = RowsOfRun
       /\ downloaded = Len(SavedAt)
       /\ kept = Len(SavedAt)
       /\ got = [k \in DOMAIN TriedAt |-> info[TriedAt[k]].ii.url]
       /\ SubSeq(f_out, 1, Len(TriedAt)) =
             [k \in DOMAIN TriedAt |->
                 LET ii == info[TriedAt[k]].ii
                 IN  IF outcome[TriedAt[k]] = "saved"
                     THEN [line |-> "Saved", item |-> NameOf(ii)]
                     ELSE [line |-> "Failed", item |-> ii.url]]
       /\ Len(f_out) = Len(TriedAt) + (IF FetcherDone THEN 1 ELSE 0)

\* a finished run in which one item failed and a later one was saved
C13_Witness ==
    /\ FetcherDone
    /\ \E i, j \in DOMAIN outcome :
          i < j /\ outcome[i] = "failed" /\ outcome[j] = "saved"
    /\ downloaded = 1
    /\ Len(csv.rows) = 1

(***************************************************************************)
(* C14 (as claimed): after every run that ends normally, a run that found  *)
(* no file items included, the metadata CSV holds the header and exactly   *)
(* the rows of the items downloaded in this run.                           *)
(***************************************************************************)
C14_AlwaysRewritten ==
    FetcherDone =>
       /\ csv.exists
       /\ csv.header = Header
       /\ csv.rows = RowsOfRun

(***************************************************************************)
(* C14 (amended): a run that gathered at least one title and got its       *)
(* metadata opens the CSV for writing, which empties it, and when it ends  *)
(* normally the file holds the header and exactly the rows of the items    *)
(* downloaded in this run; a run that gathered no title ends normally      *)
(* without opening the CSV, so the file is as it was before the run.       *)
(***************************************************************************)
C14_RewrittenOnceOpened ==
    /\ csv_opened => csv.exists /\ csv.header = Header /\ csv.rows = RowsOfRun
    /\ ~ csv_opened => csv = csv0
    /\ FetcherDone => (csv_opened <=> titles # << >>)

\* a finished run that replaced the rows of an earlier run with its own
C14_Witness ==
    /\ FetcherDone
    /\ csv0 = OldCsv
    /\ csv_opened
    /\ Len(csv.rows) = 2
    /\ \A i \in DOMAIN csv.rows : csv.rows[i] # OldCsv.rows[1]

(***************************************************************************)
(* C15: every per-file failure the tools recover from is logged with the   *)
(* name of the item: in the Selector, each file whose deletion raised      *)
(* during pruning is named in a printed line.                              *)
(***************************************************************************)
C15_DeletionFailureLogged ==
    SelectorDone =>
       \A f \in failed :
          \E i \in DOMAIN sel_out :
             "item" \in DOMAIN sel_out[i] /\ sel_out[i].item = f

(***************************************************************************)
(* C16: a failed category-listing or imageinfo request ends the run there: *)
(* the exception leaves main, after it no step of the run is possible (no  *)
(* retry, no other remote call), no image url was requested, no image file *)
(* written, and the metadata CSV was not opened and is as before the run.  *)
(***************************************************************************)
C16_AbortOnRemoteError ==
    /\ error.call # "none" => fpc = "raised"
    /\ fpc = "raised" =>
          /\ error.call \in {"categorymembers", "imageinfo"}
          /\ ~ ENABLED NextFetcher
          /\ got = << >>
          /\ DOMAIN out_files = {}
          /\ ~ csv_opened
          /\ csv = csv0
          /\ f_out = << >>

\* the second imageinfo batch failed after the first was answered, an
\* earlier CSV being in place
C16_Witness ==
    /\ fpc = "raised"
    /\ error.call = "imageinfo"
    /\ bi > 0
    /\ info # << >>
    /\ csv0 = OldCsv

====
